---- MODULE Spec2Model ----
(***************************************************************************)
(* State-machine model of the data-fetching core of web-pokedex:           *)
(*   - usePokemons      (generation pager, hooks/usePokemons.ts)           *)
(*   - getPokemonIndex  (single-flight index cache, pokemon.service.ts)    *)
(*   - useGlobalSearch  (global search, hooks/useGlobalSearch.ts)          *)
(*   - useDebounce      (debounced search text, hooks/useDebounce.ts)      *)
(*   - getPokemons      (persisted response cache, services/api.ts)        *)
(*   - App              (mode switch and infinite-scroll sentinel)         *)
(*                                                                         *)
(* React semantics used by the model.  A handler (user event, observer     *)
(* callback, promise continuation) enqueues state updates; React applies   *)
(* the batch, renders, and runs the effects whose dependency list changed  *)
(* with the values captured by that render (the closure); updates made by  *)
(* the effects lead to a further render, until no update is pending.  One  *)
(* action of the model is one handler together with the renders and        *)
(* effects it causes.  The only suspension points are the network calls.   *)
(***************************************************************************)
EXTENDS Integers, Sequences, FiniteSets

(***************************************************************************)
(* Bounds of the model (not program constants).                            *)
(***************************************************************************)
MaxResets == 1
MaxNext == 4
MaxFails == 1
MaxSearches == 3
MaxDetailFails == 1
MaxTyped == 3
MaxQuota == 1
MaxAppNext == 2
MaxCalls == 2

(***************************************************************************)
(* Program constants.                                                      *)
(***************************************************************************)
PAGE_SIZE == 20

\* config/constants: GENERATIONS, the configuration table
CONFIG_GENERATIONS ==
  [gen1 |-> [offset |-> 0,   limit |-> 151],
   gen2 |-> [offset |-> 151, limit |-> 100],
   gen3 |-> [offset |-> 251, limit |-> 135],
   gen4 |-> [offset |-> 386, limit |-> 107],
   gen5 |-> [offset |-> 493, limit |-> 156],
   gen6 |-> [offset |-> 649, limit |-> 72],
   gen7 |-> [offset |-> 721, limit |-> 88],
   gen8 |-> [offset |-> 809, limit |-> 96],
   gen9 |-> [offset |-> 905, limit |-> 120]]

\* the generations in the order of the table
GenOrder == <<"gen1", "gen2", "gen3", "gen4", "gen5", "gen6", "gen7", "gen8", "gen9">>

\* a pager table whose sixth window starts one position late
GENERATIONS_Gap ==
  [gen1 |-> [offset |-> 0,   limit |-> 151],
   gen2 |-> [offset |-> 151, limit |-> 100],
   gen3 |-> [offset |-> 251, limit |-> 135],
   gen4 |-> [offset |-> 386, limit |-> 107],
   gen5 |-> [offset |-> 493, limit |-> 156],
   gen6 |-> [offset |-> 650, limit |-> 72],
   gen7 |-> [offset |-> 721, limit |-> 88],
   gen8 |-> [offset |-> 809, limit |-> 96],
   gen9 |-> [offset |-> 905, limit |-> 120]]

\* usePokemons: GENERATIONS, the copy of the table used by the pager
GENERATIONS ==
  [gen1 |-> [offset |-> 0,   limit |-> 151],
   gen2 |-> [offset |-> 151, limit |-> 100],
   gen3 |-> [offset |-> 251, limit |-> 135],
   gen4 |-> [offset |-> 386, limit |-> 107],
   gen5 |-> [offset |-> 493, limit |-> 156],
   gen6 |-> [offset |-> 649, limit |-> 72],
   gen7 |-> [offset |-> 721, limit |-> 88],
   gen8 |-> [offset |-> 809, limit |-> 96],
   gen9 |-> [offset |-> 905, limit |-> 120]]

Generation == {"gen1", "gen2", "gen3", "gen4", "gen5", "gen6", "gen7", "gen8", "gen9"}

SortOption == {"ID_ASC", "ID_DESC", "AZ", "ZA"}

VARIABLES
  generation,   \* App state: selected generation (prop of usePokemons)
  sort,         \* App state: selected sort option (prop of usePokemons)
  pokemons,     \* usePokemons state: accumulated records, a sequence of ids
  loadedCount,  \* usePokemons state
  loading,      \* usePokemons state
  hasMore,      \* usePokemons state
  inflight,     \* getPokemons calls awaiting their response, with their closures
  lastEvent,    \* history: the handler that ran last
  staleIds,     \* history: ids in pokemons merged by a load of another (generation, sort)
  failedLoad,   \* history: the load of this session that failed last, if not yet followed by a completion
  resets,       \* history: number of generation/sort changes
  nexts,        \* history: number of fetchNextPage calls that advanced loadedCount
  fails,        \* history: number of failed page loads
  search,       \* App state: debounced search text given to useGlobalSearch
  results,      \* useGlobalSearch state: sequence of records
  searching,    \* useGlobalSearch state: loading
  searches,     \* fetchResults invocations suspended at an await
  indexCache,   \* pokemon.service module state
  indexPending, \* pokemon.service module state: "null", "pending", "fulfilled", "rejected"
  searchSeq,    \* history: number of the latest run of the search effect
  resultsBy,    \* history: the effect run whose write produced results
  resultsWhen,  \* history: the value of searchSeq when results was written
  indexFetches, \* history: number of fetchPokemonIndex calls
  received,     \* history: the index values getPokemonIndex delivered to its callers
  joined,       \* history: calls that were handed the pending operation
  cached,       \* history: calls that were handed indexCache
  detailFails,  \* history: number of failed detail lookups
  rawSearch,    \* App state: search, the raw text of the input
  timer,        \* useDebounce: the pending timeout, its captured value and the time left
  sinceChange,  \* history: time since the raw text last changed, capped at the delay
  typed,        \* history: number of changes of the raw text
  emits,        \* history: changes of the debounced value since the raw text last changed
  types,        \* App state: the selected types, in the order they were selected
  storage,      \* localStorage: the item stored under "pokedex_cache"
  quotas,       \* history: number of setItem calls that exceeded the quota
  detailLog,    \* history: ids whose detail was requested by the last call
                \* of getPokemons that sent requests
  calls         \* calls of getPokemons made outside the pager, suspended at
                \* an await, each with the fullCache it parsed

pagerVars == <<generation, sort, pokemons, loadedCount, loading, hasMore, inflight,
               staleIds, failedLoad, resets, nexts, fails>>

searchVars == <<search, results, searching, searches, indexCache, indexPending,
                searchSeq, resultsBy, resultsWhen, indexFetches, received, joined, cached,
                detailFails>>

debounceVars == <<rawSearch, timer, sinceChange, typed, emits>>

cacheVars == <<storage, quotas, detailLog, calls>>

filterVars == <<types>>

vars == <<pagerVars, searchVars, debounceVars, cacheVars, filterVars, lastEvent>>

NoLoad == [generation |-> "none"]

(***************************************************************************)
(* localStorage item "pokedex_cache": a mapping from name to record, kept  *)
(* here as the set of the ids of its records.                              *)
(***************************************************************************)
NoItem == [present |-> FALSE, corrupt |-> FALSE, ids |-> {}]

\* an item whose text JSON.parse cannot parse
CorruptItem == [present |-> TRUE, corrupt |-> TRUE, ids |-> {}]

\* cachedData ? JSON.parse(cachedData) : {}
GetItem(item) == IF item.present THEN item.ids ELSE {}

\* localStorage.setItem(CACHE_KEY, JSON.stringify(fullCache))
SetItem(ids) == [present |-> TRUE, corrupt |-> FALSE, ids |-> ids]

Min(a, b) == IF a < b THEN a ELSE b

Range(s) == {s[i] : i \in 1..Len(s)}

(***************************************************************************)
(* Remote catalog: the list endpoint serves the catalog in national-dex    *)
(* order, the entry at zero-based position p being the record with id p+1. *)
(***************************************************************************)
CatalogId(pos) == pos + 1

\* getPokemons(offset, limit) on success: the records of the requested window
PageOf(offset, limit) == [i \in 1..limit |-> CatalogId(offset + i - 1)]

\* a page whose every entry is fetched again
DetailFetches_All(ld) == Range(PageOf(ld.realOffset, ld.limit))

\* the entries of the page of call ld for which fetch(pokeRef.url) is issued:
\* those with no record under their name in the fullCache the call parsed
DetailFetches(ld) == Range(PageOf(ld.realOffset, ld.limit)) \ ld.fullCache

(***************************************************************************)
(* setPokemons updater: Map keyed by id over [...prev, ...new], then the   *)
(* values sorted by id ascending.                                          *)
(***************************************************************************)
\* every id of the catalogue, in increasing order
AllIds ==
  [i \in 1..(GENERATIONS["gen9"].offset + GENERATIONS["gen9"].limit) |-> i]

SortById(S) == SelectSeq(AllIds, LAMBDA x : x \in S)

\* an updater that appends the page to the list
MergeById_Append(prev, new) == prev \o new

MergeById(prev, new) == SortById(Range(prev) \cup Range(new))

(***************************************************************************)
(* loadPokemons: page arithmetic.                                          *)
(***************************************************************************)
\* page size without the clamp to what remains of the generation
PageLimit_Unclamped(gen, lc) == PAGE_SIZE

PageLimit(gen, lc) == Min(PAGE_SIZE, GENERATIONS[gen].limit - lc)

\* descending offset computed with the full page size instead of the clamped one
RealOffset_FullPage(gen, srt, lc) ==
  IF srt = "ID_DESC"
  THEN GENERATIONS[gen].offset + GENERATIONS[gen].limit - lc - PAGE_SIZE
  ELSE GENERATIONS[gen].offset + lc

RealOffset(gen, srt, lc) ==
  IF srt = "ID_DESC"
  THEN GENERATIONS[gen].offset + GENERATIONS[gen].limit - lc - PageLimit(gen, lc)
  ELSE GENERATIONS[gen].offset + lc

PagerState == [pokemons |-> pokemons, loadedCount |-> loadedCount,
               loading |-> loading, hasMore |-> hasMore]

(***************************************************************************)
(* loadPokemons up to its first await, run by the load effect of a render  *)
(* (the first definition is loadPokemons without its test of loading).     *)
(* getPokemons parses the stored item before its first await: with an item *)
(* that does not parse it throws, the call is rejected without a request,  *)
(* and the catch and finally blocks run before any other handler           *)
(* whose closure holds state c and props (gen, srt).  st is the state with *)
(* the updates enqueued so far, fl the calls in flight.                    *)
(***************************************************************************)
loadPokemons_NoLoadingGuard(c, gen, srt, st, fl) ==
  IF ~c.hasMore
  THEN [st |-> st, inflight |-> fl]
  ELSE IF PageLimit(gen, c.loadedCount) <= 0
       THEN [st |-> [st EXCEPT !.hasMore = FALSE, !.loading = FALSE], inflight |-> fl]
       ELSE IF storage.corrupt
       THEN [st |-> [st EXCEPT !.loading = FALSE], inflight |-> fl]
       ELSE [st |-> [st EXCEPT !.loading = TRUE],
             inflight |-> Append(fl, [generation |-> gen, sort |-> srt,
                                      loadedCount |-> c.loadedCount,
                                      limit |-> PageLimit(gen, c.loadedCount),
                                      realOffset |-> RealOffset(gen, srt, c.loadedCount),
                                      fullCache |-> GetItem(storage)])]

loadPokemons(c, gen, srt, st, fl) ==
  IF c.loading \/ ~c.hasMore
  THEN [st |-> st, inflight |-> fl]
  ELSE IF PageLimit(gen, c.loadedCount) <= 0
       THEN [st |-> [st EXCEPT !.hasMore = FALSE, !.loading = FALSE], inflight |-> fl]
       ELSE IF storage.corrupt
       THEN [st |-> [st EXCEPT !.loading = FALSE], inflight |-> fl]
       ELSE [st |-> [st EXCEPT !.loading = TRUE],
             inflight |-> Append(fl, [generation |-> gen, sort |-> srt,
                                      loadedCount |-> c.loadedCount,
                                      limit |-> PageLimit(gen, c.loadedCount),
                                      realOffset |-> RealOffset(gen, srt, c.loadedCount),
                                      fullCache |-> GetItem(storage)])]

\* the load effect runs after a render only if one of its dependencies changed
LoadEffect(depsChanged, c, gen, srt, fl) ==
  IF depsChanged THEN loadPokemons(c, gen, srt, c, fl)
  ELSE [st |-> c, inflight |-> fl]

(***************************************************************************)
(* Reset effect followed by the load effect, both of the render that saw   *)
(* the new (generation, sort); then the render of the resulting state,     *)
(* whose load effect runs again if loadedCount changed.                    *)
(***************************************************************************)
ResetEffect(c) == [c EXCEPT !.pokemons = <<>>, !.hasMore = TRUE, !.loadedCount = 0]

AfterPropsChange(gen, srt) ==
  LET c1 == PagerState
      r1 == loadPokemons(c1, gen, srt, ResetEffect(c1), inflight)
  IN LoadEffect(r1.st.loadedCount # c1.loadedCount, r1.st, gen, srt, r1.inflight)

Commit(r) ==
  /\ pokemons' = r.st.pokemons
  /\ loadedCount' = r.st.loadedCount
  /\ loading' = r.st.loading
  /\ hasMore' = r.st.hasMore
  /\ inflight' = r.inflight

\* FilterMenu: setGeneration(g)
SetGeneration(g) ==
  /\ g # generation
  /\ generation' = g
  /\ sort' = sort
  /\ Commit(AfterPropsChange(g, sort))
  /\ lastEvent' = "setGeneration"
  /\ staleIds' = {}
  /\ failedLoad' = NoLoad
  /\ resets' = resets + 1
  /\ UNCHANGED <<nexts, fails>>
  /\ UNCHANGED <<filterVars, searchVars, debounceVars, cacheVars>>

\* FilterMenu: setSort(s)
SetSort(s) ==
  /\ s # sort
  /\ sort' = s
  /\ generation' = generation
  /\ Commit(AfterPropsChange(generation, s))
  /\ lastEvent' = "setSort"
  /\ staleIds' = {}
  /\ failedLoad' = NoLoad
  /\ resets' = resets + 1
  /\ UNCHANGED <<nexts, fails>>
  /\ UNCHANGED <<filterVars, searchVars, debounceVars, cacheVars>>

\* fetchNextPage guarded by hasMore only
FetchNextPage_NoLoadingGuard ==
  /\ IF hasMore
     THEN /\ Commit(LoadEffect(TRUE, [PagerState EXCEPT !.loadedCount = loadedCount + PAGE_SIZE],
                               generation, sort, inflight))
          /\ nexts' = nexts + 1
     ELSE UNCHANGED <<pokemons, loadedCount, loading, hasMore, inflight, nexts>>
  /\ lastEvent' = "fetchNextPage"
  /\ UNCHANGED <<generation, sort, staleIds, failedLoad, resets, fails>>
  /\ UNCHANGED <<filterVars, searchVars, debounceVars, cacheVars>>

\* fetchNextPage, and the load effect of the render it causes
FetchNextPage ==
  /\ IF ~loading /\ hasMore
     THEN /\ Commit(LoadEffect(TRUE, [PagerState EXCEPT !.loadedCount = loadedCount + PAGE_SIZE],
                               generation, sort, inflight))
          /\ nexts' = nexts + 1
     ELSE UNCHANGED <<pokemons, loadedCount, loading, hasMore, inflight, nexts>>
  /\ lastEvent' = "fetchNextPage"
  /\ UNCHANGED <<generation, sort, staleIds, failedLoad, resets, fails>>
  /\ UNCHANGED <<filterVars, searchVars, debounceVars, cacheVars>>

RemoveAt(s, i) == SubSeq(s, 1, i - 1) \o SubSeq(s, i + 1, Len(s))

\* the end-of-generation test of the continuation made with > in place of >=
LoadOk_StrictLimit(i) ==
  LET ld == inflight[i]
      page == PageOf(ld.realOffset, ld.limit)
  IN /\ pokemons' = MergeById(pokemons, page)
     /\ hasMore' = IF ld.loadedCount + ld.limit > GENERATIONS[ld.generation].limit
                   THEN FALSE ELSE hasMore
     /\ loading' = FALSE
     /\ inflight' = RemoveAt(inflight, i)
     /\ staleIds' = IF ld.generation = generation /\ ld.sort = sort
                    THEN staleIds \ Range(page)
                    ELSE staleIds \cup Range(page)
     /\ failedLoad' = NoLoad
     /\ storage' = SetItem(ld.fullCache \cup Range(page))
     /\ detailLog' = DetailFetches(ld)
     /\ lastEvent' = "loadOk"
     /\ UNCHANGED <<generation, sort, loadedCount, resets, nexts, fails, quotas, calls>>
     /\ UNCHANGED <<filterVars, searchVars, debounceVars>>

\* continuation of loadPokemons after getPokemons resolved
LoadOk(i) ==
  LET ld == inflight[i]
      page == PageOf(ld.realOffset, ld.limit)
  IN /\ pokemons' = MergeById(pokemons, page)
     /\ hasMore' = IF ld.loadedCount + ld.limit >= GENERATIONS[ld.generation].limit
                   THEN FALSE ELSE hasMore
     /\ loading' = FALSE
     /\ inflight' = RemoveAt(inflight, i)
     /\ staleIds' = IF ld.generation = generation /\ ld.sort = sort
                    THEN staleIds \ Range(page)
                    ELSE staleIds \cup Range(page)
     /\ failedLoad' = NoLoad
     /\ storage' = SetItem(ld.fullCache \cup Range(page))
     /\ detailLog' = DetailFetches(ld)
     /\ lastEvent' = "loadOk"
     /\ UNCHANGED <<generation, sort, loadedCount, resets, nexts, fails, quotas, calls>>
     /\ UNCHANGED <<filterVars, searchVars, debounceVars>>

\* a getPokemons that lets the exception of setItem reach its caller
LoadOkQuota_Throws(i) ==
  LET ld == inflight[i]
  IN /\ loading' = FALSE
     /\ inflight' = RemoveAt(inflight, i)
     /\ failedLoad' = IF ld.generation = generation /\ ld.sort = sort THEN ld ELSE NoLoad
     /\ quotas' = quotas + 1
     /\ detailLog' = DetailFetches(ld)
     /\ lastEvent' = "loadOkQuota"
     /\ UNCHANGED <<generation, sort, pokemons, loadedCount, hasMore, staleIds, resets, nexts,
                    fails, storage, calls>>
     /\ UNCHANGED <<filterVars, searchVars, debounceVars>>

\* getPokemons resolved after setItem threw (quota exceeded): the item is
\* removed and the page returned; then the continuation of loadPokemons
LoadOkQuota(i) ==
  LET ld == inflight[i]
      page == PageOf(ld.realOffset, ld.limit)
  IN /\ pokemons' = MergeById(pokemons, page)
     /\ hasMore' = IF ld.loadedCount + ld.limit >= GENERATIONS[ld.generation].limit
                   THEN FALSE ELSE hasMore
     /\ loading' = FALSE
     /\ inflight' = RemoveAt(inflight, i)
     /\ staleIds' = IF ld.generation = generation /\ ld.sort = sort
                    THEN staleIds \ Range(page)
                    ELSE staleIds \cup Range(page)
     /\ failedLoad' = NoLoad
     /\ storage' = NoItem
     /\ quotas' = quotas + 1
     /\ detailLog' = DetailFetches(ld)
     /\ lastEvent' = "loadOkQuota"
     /\ UNCHANGED <<generation, sort, loadedCount, resets, nexts, fails, calls>>
     /\ UNCHANGED <<filterVars, searchVars, debounceVars>>

\* a catch block that ends the list and gives the page back
LoadFail_EndsList(i) ==
  LET ld == inflight[i]
  IN /\ loading' = FALSE
     /\ hasMore' = FALSE
     /\ loadedCount' = IF loadedCount >= PAGE_SIZE THEN loadedCount - PAGE_SIZE ELSE 0
     /\ inflight' = RemoveAt(inflight, i)
     /\ failedLoad' = IF ld.generation = generation /\ ld.sort = sort THEN ld ELSE NoLoad
     /\ fails' = fails + 1
     /\ detailLog' \in {{}, DetailFetches(ld)}
     /\ lastEvent' = "loadFail"
     /\ UNCHANGED <<generation, sort, pokemons, staleIds, resets, nexts>>
     /\ UNCHANGED <<filterVars, searchVars, debounceVars, storage, quotas, calls>>

\* continuation of loadPokemons after getPokemons rejected (catch, finally):
\* the list request failed, or one of the detail requests issued after it
LoadFail(i) ==
  LET ld == inflight[i]
  IN /\ loading' = FALSE
     /\ inflight' = RemoveAt(inflight, i)
     /\ failedLoad' = IF ld.generation = generation /\ ld.sort = sort THEN ld ELSE NoLoad
     /\ fails' = fails + 1
     /\ detailLog' \in {{}, DetailFetches(ld)}
     /\ lastEvent' = "loadFail"
     /\ UNCHANGED <<generation, sort, pokemons, loadedCount, hasMore, staleIds, resets, nexts>>
     /\ UNCHANGED <<filterVars, searchVars, debounceVars, storage, quotas, calls>>

(***************************************************************************)
(* Strings are sequences of one-character strings.                         *)
(***************************************************************************)
Digits == <<"0", "1", "2", "3", "4", "5", "6", "7", "8", "9">>

IsDigit(ch) == \E d \in 1..10 : Digits[d] = ch

DigitVal(ch) == (CHOOSE d \in 1..10 : Digits[d] = ch) - 1

\* NaN, which no id of the catalog equals
NaN == -1

\* Number(segment): the decimal value of a digit string, NaN for other text
RECURSIVE DecimalValue(_)
DecimalValue(s) ==
  IF s = <<>> THEN 0
  ELSE 10 * DecimalValue(SubSeq(s, 1, Len(s) - 1)) + DigitVal(s[Len(s)])

Number(seg) ==
  IF seg # <<>> /\ \A i \in 1..Len(seg) : IsDigit(seg[i])
  THEN DecimalValue(seg)
  ELSE NaN

\* id.toString()
RECURSIVE ToString(_)
ToString(n) ==
  IF n = NaN THEN <<"N", "a", "N">>
  ELSE IF n < 10 THEN <<Digits[n + 1]>>
       ELSE ToString(n \div 10) \o <<Digits[(n % 10) + 1]>>

\* url.split("/")
RECURSIVE Split(_)
Split(s) ==
  IF \A i \in 1..Len(s) : s[i] # "/"
  THEN <<s>>
  ELSE LET k == CHOOSE i \in 1..Len(s) : s[i] = "/" /\ \A j \in 1..(i - 1) : s[j] # "/"
       IN <<SubSeq(s, 1, k - 1)>> \o Split(SubSeq(s, k + 1, Len(s)))

NonEmpty(seg) == seg # <<>>

\* mappers/pokemon.mapper: extractIdFromUrl (Number(undefined) is NaN)
extractIdFromUrl(url) ==
  LET segments == SelectSeq(Split(url), NonEmpty)
  IN IF segments = <<>> THEN NaN ELSE Number(segments[Len(segments)])

\* mappers/pokemon.mapper: mapPokemonIndex
mapPokemonIndex(data) ==
  [i \in 1..Len(data) |-> [name |-> data[i].name, id |-> extractIdFromUrl(data[i].url)]]

\* String.prototype.trim
RECURSIVE Trim(_)
Trim(s) ==
  IF s = <<>> THEN s
  ELSE IF s[1] = " " THEN Trim(Tail(s))
  ELSE IF s[Len(s)] = " " THEN Trim(SubSeq(s, 1, Len(s) - 1))
  ELSE s

LowerOf(ch) == IF ch = "A" THEN "a" ELSE IF ch = "B" THEN "b" ELSE ch

\* String.prototype.toLowerCase
ToLowerCase(s) == [i \in 1..Len(s) |-> LowerOf(s[i])]

\* String.prototype.includes
Includes(s, t) == \E i \in 1..(Len(s) - Len(t) + 1) : SubSeq(s, i, i + Len(t) - 1) = t

(***************************************************************************)
(* Remote index: what GET pokemon?limit=2000 answers.  Two answers are     *)
(* possible (the catalog may grow between two requests).  More than 20     *)
(* names contain "a", so that the limit of the search is reached.          *)
(***************************************************************************)
Letters == <<"c", "d", "e", "f", "g", "h", "i", "j", "k", "l", "m", "n",
             "o", "p", "q", "r", "s", "t", "u", "v", "w", "x", "y", "z">>

RemoteName(i) ==
  IF i = 7 THEN <<"b", "2">>
  ELSE (IF i = 12 THEN <<"b">> ELSE <<"a">>) \o <<Letters[i]>>

RemoteUrl(i) == <<"v", "2", "/", "p", "/">> \o ToString(i) \o <<"/">>

RemoteIndex(n) == [i \in 1..n |-> [name |-> RemoteName(i), url |-> RemoteUrl(i)]]

\* an answer in which the url of the third entry does not end with a number
MalformedIndex ==
  [i \in 1..23 |-> [name |-> RemoteName(i),
                     url |-> IF i = 3
                             THEN <<"v", "2", "/", "p", "/", "x", "/">>
                             ELSE RemoteUrl(i)]]

RemoteIndexes == {RemoteIndex(23), RemoteIndex(24), MalformedIndex}

\* GET pokemon/{name}: the detail record of that name
RemoteDetail(name) ==
  [name |-> name, id |-> CHOOSE i \in 1..Len(Letters) : RemoteName(i) = name]

\* raw search texts the user can settle on
Queries == {<<>>, <<"a">>, <<"B", " ">>, <<"2">>}

SEARCH_LIMIT == 20

\* local partial matching without the limit
Matches_NoSlice(index, term) ==
  LET hit(p) == Includes(p.name, term) \/ Includes(ToString(p.id), term)
  IN SelectSeq(index, hit)

\* useGlobalSearch: local partial matching, limited to 20
Matches(index, term) ==
  LET hit(p) == Includes(p.name, term) \/ Includes(ToString(p.id), term)
      all == SelectSeq(index, hit)
  IN SubSeq(all, 1, Min(SEARCH_LIMIT, Len(all)))

SearchState == [results |-> results, searching |-> searching, searches |-> searches,
                resultsBy |-> resultsBy, wrote |-> FALSE]

\* fetchResults after `await getPokemonIndex()` resolved with index: the
\* detail requests are issued; with no match Promise.all([]) resolves at once
AfterIndex(ss, inv, index) ==
  LET m == Matches(index, inv.term)
  IN IF m = <<>>
     THEN [ss EXCEPT !.results = <<>>, !.searching = FALSE, !.resultsBy = inv.id, !.wrote = TRUE,
                     !.searches = ss.searches \ {inv}]
     ELSE [ss EXCEPT !.searches = (ss.searches \ {inv}) \cup
                                  {[inv EXCEPT !.phase = "details", !.matches = m]}]

\* fetchResults after `await getPokemonIndex()` rejected: catch and finally
AfterIndexRejected(ss, inv) ==
  [ss EXCEPT !.results = <<>>, !.searching = FALSE, !.resultsBy = inv.id, !.wrote = TRUE,
             !.searches = ss.searches \ {inv}]

CommitSearch(ss, now) ==
  /\ results' = ss.results
  /\ searching' = ss.searching
  /\ searches' = ss.searches
  /\ resultsBy' = ss.resultsBy
  /\ resultsWhen' = IF ss.wrote THEN now ELSE resultsWhen

NewSearch(id, term) == [id |-> id, term |-> term, phase |-> "index", matches |-> <<>>,
                        aborted |-> FALSE]

\* cleanup of the previous effect run: controller.abort()
Abort(S, id) == {IF inv.id = id THEN [inv EXCEPT !.aborted = TRUE] ELSE inv : inv \in S}

\* getPokemonIndex without the pending-operation check
getPokemonIndex_NoPendingCheck(cache, pending) ==
  IF ~cache.isNull THEN "cache" ELSE "fetch"

\* getPokemonIndex: which of its three returns is taken
getPokemonIndex(cache, pending) ==
  IF ~cache.isNull THEN "cache"
  ELSE IF pending # "null" THEN "pending"
  ELSE "fetch"

(***************************************************************************)
(* The search effect for a new value of `search`: cleanup of the previous  *)
(* run, then term normalisation, then fetchResults up to its first network *)
(* suspension, getPokemonIndex included.                                   *)
(***************************************************************************)
SearchEffect(q) ==
  LET term == ToLowerCase(Trim(q))
      id == searchSeq + 1
      s0 == [SearchState EXCEPT !.searches = Abort(searches, searchSeq)]
      inv == NewSearch(id, term)
      s1 == [s0 EXCEPT !.searching = TRUE, !.searches = s0.searches \cup {inv}]
      how == getPokemonIndex(indexCache, indexPending)
  IN /\ q # search
     /\ search' = q
     /\ searchSeq' = id
     /\ IF term = <<>>
        THEN /\ CommitSearch([s0 EXCEPT !.results = <<>>, !.resultsBy = id, !.wrote = TRUE], id)
             /\ UNCHANGED <<indexCache, indexPending, indexFetches, received, joined, cached>>
        ELSE IF how = "cache"
        THEN /\ CommitSearch(AfterIndex(s1, inv, indexCache.items), id)
             /\ received' = received \cup {indexCache.items}
             /\ cached' = cached + 1
             /\ UNCHANGED <<indexCache, indexPending, indexFetches, joined>>
        ELSE IF how = "pending" /\ indexPending = "rejected"
        THEN /\ CommitSearch(AfterIndexRejected(s1, inv), id)
             /\ joined' = joined + 1
             /\ UNCHANGED <<indexCache, indexPending, indexFetches, received, cached>>
        ELSE IF how = "pending"
        THEN /\ CommitSearch(s1, id)
             /\ joined' = joined + 1
             /\ UNCHANGED <<indexCache, indexPending, indexFetches, received, cached>>
        ELSE /\ CommitSearch(s1, id)
             /\ indexPending' = "pending"
             /\ indexFetches' = indexFetches + 1
             /\ UNCHANGED <<indexCache, received, joined, cached>>
     /\ UNCHANGED detailFails

\* useGlobalSearch given a new value of its parameter
SetSearch(q) ==
  /\ SearchEffect(q)
  /\ lastEvent' = "setSearch"
  /\ UNCHANGED <<filterVars, pagerVars, debounceVars, cacheVars>>

Waiting(S) == {inv \in S : inv.phase = "index"}

\* the suspended callers resume in the order in which they awaited
RECURSIVE ResumeAll(_, _, _, _)
ResumeAll(ss, ids, fulfilled, index) ==
  IF ids = {} THEN ss
  ELSE LET i == CHOOSE x \in ids : \A y \in ids : x <= y
           inv == CHOOSE v \in ss.searches : v.id = i
       IN ResumeAll(IF fulfilled THEN AfterIndex(ss, inv, index)
                    ELSE AfterIndexRejected(ss, inv),
                    ids \ {i}, fulfilled, index)

\* fetchPokemonIndex resolved: the `then` callback of getPokemonIndex, and
\* the continuation of every caller awaiting the pending operation
IndexResolved(data) ==
  LET mapped == mapPokemonIndex(data)
      waiting == {inv.id : inv \in Waiting(searches)}
  IN /\ indexPending = "pending"
     /\ indexCache' = [isNull |-> FALSE, items |-> mapped]
     /\ indexPending' = "fulfilled"
     /\ lastEvent' = "indexResolved"
     /\ CommitSearch(ResumeAll(SearchState, waiting, TRUE, mapped), searchSeq)
     /\ received' = IF waiting = {} THEN received ELSE received \cup {mapped}
     /\ UNCHANGED <<search, searchSeq, indexFetches, joined, cached, detailFails>>
     /\ UNCHANGED <<filterVars, pagerVars, debounceVars, cacheVars>>

\* fetchPokemonIndex rejected: the pending operation stays stored, rejected
IndexRejected ==
  LET waiting == {inv.id : inv \in Waiting(searches)}
  IN /\ indexPending = "pending"
     /\ indexPending' = "rejected"
     /\ lastEvent' = "indexRejected"
     /\ CommitSearch(ResumeAll(SearchState, waiting, FALSE, <<>>), searchSeq)
     /\ UNCHANGED <<search, searchSeq, indexCache, indexFetches, received, joined, cached, detailFails>>
     /\ UNCHANGED <<filterVars, pagerVars, debounceVars, cacheVars>>

Names(entries) == {entries[i].name : i \in 1..Len(entries)}

\* the lookups that are let fail: those of the first two matches and of the last
FailCandidates(matches) ==
  {matches[i].name : i \in {j \in {1, 2, Len(matches)} : j >= 1 /\ j <= Len(matches)}}

\* the sets of at most k lookups that fail
RECURSIVE FailSets(_, _)
FailSets(S, k) ==
  IF k = 0 THEN {{}}
  ELSE FailSets(S, k - 1) \cup {F \cup {x} : F \in FailSets(S, k - 1), x \in S}

\* a Promise.all that one failed lookup rejects: no record is kept
Detailed_AllOrNothing(matches, failed) ==
  LET ok(p) == failed = {}
      kept == SelectSeq(matches, ok)
  IN [i \in 1..Len(kept) |-> RemoteDetail(kept[i].name)]

\* detailed.filter(Boolean): getPokemonByNameOrId gives null for a failed lookup
Detailed(matches, failed) ==
  LET ok(p) == p.name \notin failed
      kept == SelectSeq(matches, ok)
  IN [i \in 1..Len(kept) |-> RemoteDetail(kept[i].name)]

\* a completion that also stores its records in the persisted response cache
DetailsDone_Caches(inv, failed) ==
  /\ inv.phase = "details"
  /\ lastEvent' = "detailsDone"
  /\ CommitSearch([SearchState EXCEPT !.results = Detailed(inv.matches, failed),
                                      !.searching = FALSE,
                                      !.resultsBy = inv.id, !.wrote = TRUE,
                                      !.searches = searches \ {inv}], searchSeq)
  /\ detailFails' = detailFails + Cardinality(failed)
  /\ storage' = SetItem(GetItem(storage) \cup {inv.matches[i].id : i \in 1..Len(inv.matches)})
  /\ UNCHANGED <<search, searchSeq, indexCache, indexPending, indexFetches, received, joined, cached>>
  /\ UNCHANGED <<filterVars, pagerVars, debounceVars, quotas, detailLog, calls>>

\* Promise.all of the detail lookups settled: setResults, then finally
DetailsDone(inv, failed) ==
  /\ inv.phase = "details"
  /\ lastEvent' = "detailsDone"
  /\ CommitSearch([SearchState EXCEPT !.results = Detailed(inv.matches, failed),
                                      !.searching = FALSE,
                                      !.resultsBy = inv.id, !.wrote = TRUE,
                                      !.searches = searches \ {inv}], searchSeq)
  /\ detailFails' = detailFails + Cardinality(failed)
  /\ UNCHANGED <<search, searchSeq, indexCache, indexPending, indexFetches, received, joined, cached>>
  /\ UNCHANGED <<filterVars, pagerVars, debounceVars, cacheVars>>

(***************************************************************************)
(* useDebounce(search, 400) in App.  Time is counted in milliseconds and   *)
(* passes in steps; a timeout may fire once its delay has passed, never    *)
(* before.                                                                 *)
(***************************************************************************)
DEBOUNCE_MS == 400

TimeSteps == {150, 400}

Max(a, b) == IF a > b THEN a ELSE b

NoTimer == [active |-> FALSE, value |-> <<>>, due |-> 0]

\* an effect that leaves a pending timeout in place instead of replacing it
RestartTimer_KeepsPending(v) ==
  IF timer.active THEN timer
  ELSE [active |-> TRUE, value |-> v, due |-> DEBOUNCE_MS]

\* the effect of useDebounce for a new value: the cleanup of the previous run
\* clears its timeout, then setTimeout(() => setDebouncedValue(v), delay)
RestartTimer(v) == [active |-> TRUE, value |-> v, due |-> DEBOUNCE_MS]

\* App.handleSearchChange: setSearch(value), and the effect of useDebounce
HandleSearchChange(v) ==
  /\ v # rawSearch
  /\ rawSearch' = v
  /\ timer' = RestartTimer(v)
  /\ sinceChange' = 0
  /\ typed' = typed + 1
  /\ emits' = 0
  /\ lastEvent' = "searchChange"
  /\ UNCHANGED <<filterVars, pagerVars, searchVars, cacheVars>>

\* dt milliseconds pass
Advance(dt) ==
  /\ timer' = [timer EXCEPT !.due = Max(0, timer.due - dt)]
  /\ sinceChange' = Min(DEBOUNCE_MS, sinceChange + dt)
  /\ lastEvent' = "advance"
  /\ UNCHANGED <<filterVars, pagerVars, searchVars, cacheVars, rawSearch, typed, emits>>

\* the timeout callback: setDebouncedValue(value); a changed debounced value
\* is the new parameter of useGlobalSearch, whose effect runs
TimerFires ==
  /\ timer.active /\ timer.due = 0
  /\ timer' = NoTimer
  /\ IF timer.value # search
     THEN SearchEffect(timer.value) /\ emits' = emits + 1
     ELSE UNCHANGED <<searchVars, emits>>
  /\ lastEvent' = "timerFires"
  /\ UNCHANGED <<filterVars, pagerVars, cacheVars, rawSearch, sinceChange, typed>>

\* useDebounce after mount: useState(value), and the timeout of the first effect
DebounceMounted ==
  /\ rawSearch = <<>>
  /\ timer = [active |-> TRUE, value |-> <<>>, due |-> DEBOUNCE_MS]
  /\ sinceChange = 0
  /\ typed = 0
  /\ emits = 0

\* useGlobalSearch after mount with search = '' (the effect resets results)
SearchMounted ==
  /\ search = <<>>
  /\ results = <<>>
  /\ searching = FALSE
  /\ searches = {}
  /\ indexCache = [isNull |-> TRUE, items |-> <<>>]
  /\ indexPending = "null"
  /\ searchSeq = 0
  /\ resultsBy = 0
  /\ resultsWhen = 0
  /\ indexFetches = 0
  /\ received = {}
  /\ joined = 0
  /\ cached = 0
  /\ detailFails = 0


(***************************************************************************)
(* State after mount: App starts with gen1 / ID_ASC; the reset effect and  *)
(* the load effect of the first render have run.                           *)
(***************************************************************************)
MountedOn(item, gen, srt) ==
  LET c0 == [pokemons |-> <<>>, loadedCount |-> 0, loading |-> FALSE, hasMore |-> TRUE]
      r == loadPokemons(c0, gen, srt, ResetEffect(c0), <<>>)
  IN /\ storage = item
     /\ quotas = 0
     /\ detailLog = {}
     /\ calls = <<>>
     /\ generation = gen
     /\ sort = srt
     /\ pokemons = r.st.pokemons
     /\ loadedCount = r.st.loadedCount
     /\ loading = r.st.loading
     /\ hasMore = r.st.hasMore
     /\ inflight = r.inflight
     /\ lastEvent = "mount"
     /\ staleIds = {}
     /\ failedLoad = NoLoad
     /\ resets = 0
     /\ nexts = 0
     /\ fails = 0
     /\ types = <<>>
     /\ SearchMounted
     /\ DebounceMounted

\* the page opened with nothing stored
Mounted(gen, srt) == MountedOn(NoItem, gen, srt)

Init == Mounted("gen1", "ID_ASC")

Next ==
  \/ \E g \in Generation : resets < MaxResets /\ SetGeneration(g)
  \/ \E s \in SortOption : resets < MaxResets /\ SetSort(s)
  \/ nexts < MaxNext /\ FetchNextPage
  \/ \E i \in 1..Len(inflight) : LoadOk(i)
  \/ \E i \in 1..Len(inflight) : fails < MaxFails /\ LoadFail(i)

Spec == Init /\ [][Next]_vars

(***************************************************************************)
(* One session drained to the end, for every generation and sort: the hook *)
(* mounted with any parameters, no change of generation or sort.           *)
(***************************************************************************)
InitDrain == \E g \in Generation : \E s \in SortOption : Mounted(g, s)

NextDrain ==
  \/ FetchNextPage
  \/ \E i \in 1..Len(inflight) : LoadOk(i)
  \/ \E i \in 1..Len(inflight) : LoadFail(i)

SpecDrain == InitDrain /\ [][NextDrain]_vars

(***************************************************************************)
(* Global search and the index cache.                                      *)
(***************************************************************************)
NextSearch ==
  \/ \E q \in Queries : searchSeq < MaxSearches /\ SetSearch(q)
  \/ \E data \in RemoteIndexes : IndexResolved(data)
  \/ IndexRejected
  \/ \E inv \in searches : \E failed \in FailSets(FailCandidates(inv.matches), MaxDetailFails - detailFails) :
        DetailsDone(inv, failed)

SpecSearch == Init /\ [][NextSearch]_vars

(***************************************************************************)
(* The pager over the persisted response cache: a session in which         *)
(* setItem may exceed the quota.                                           *)
(***************************************************************************)
NextCache ==
  \/ nexts < MaxNext /\ FetchNextPage
  \/ \E i \in 1..Len(inflight) : LoadOk(i)
  \/ \E i \in 1..Len(inflight) : quotas < MaxQuota /\ LoadOkQuota(i)
  \/ \E i \in 1..Len(inflight) : fails < MaxFails /\ LoadFail(i)

SpecCache == InitDrain /\ [][NextCache]_vars

\* the same session, opened with nothing stored or with an item that does
\* not parse
InitCorrupt ==
  \E item \in {NoItem, CorruptItem} : \E g \in Generation : \E s \in SortOption :
    MountedOn(item, g, s)

SpecCorrupt == InitCorrupt /\ [][NextCache]_vars

(***************************************************************************)
(* getPokemons as the service module exports it: calls made while other    *)
(* calls, the pager's among them, are suspended.                           *)
(***************************************************************************)
CallOffsets == {0, PAGE_SIZE, 2 * PAGE_SIZE}

\* getPokemons(offset, PAGE_SIZE) up to its first await: the item is read and
\* parsed, the list request sent
CallGetPokemons(offset) ==
  /\ Len(calls) < MaxCalls
  /\ ~storage.corrupt
  /\ calls' = Append(calls, [realOffset |-> offset, limit |-> PAGE_SIZE,
                              fullCache |-> GetItem(storage)])
  /\ lastEvent' = "getPokemons"
  /\ UNCHANGED <<storage, quotas, detailLog>>
  /\ UNCHANGED <<filterVars, pagerVars, searchVars, debounceVars>>

\* the list and the details arrived: fullCache, with the new records added,
\* is written and the page returned
CallResolves(i) ==
  LET cl == calls[i]
  IN /\ storage' = SetItem(cl.fullCache \cup Range(PageOf(cl.realOffset, cl.limit)))
     /\ detailLog' = DetailFetches(cl)
     /\ calls' = RemoveAt(calls, i)
     /\ lastEvent' = "getPokemonsResolved"
     /\ UNCHANGED quotas
     /\ UNCHANGED <<filterVars, pagerVars, searchVars, debounceVars>>

\* the list request or a detail request failed: the call rejects
CallRejects(i) ==
  LET cl == calls[i]
  IN /\ detailLog' \in {{}, DetailFetches(cl)}
     /\ calls' = RemoveAt(calls, i)
     /\ lastEvent' = "getPokemonsRejected"
     /\ UNCHANGED <<storage, quotas>>
     /\ UNCHANGED <<filterVars, pagerVars, searchVars, debounceVars>>

NextService ==
  \/ \E offset \in CallOffsets : CallGetPokemons(offset)
  \/ \E i \in 1..Len(calls) : CallResolves(i)
  \/ \E i \in 1..Len(calls) : CallRejects(i)
  \/ \E i \in 1..Len(inflight) : LoadOk(i)

SpecService == Init /\ [][NextService]_vars

\* a visit of the sixth generation that finds nothing stored, or the item
\* an earlier visit left after its first page in ascending order
InitWarm ==
  \E item \in {NoItem, SetItem(Range(PageOf(GENERATIONS["gen6"].offset, PAGE_SIZE)))} :
    \E s \in SortOption : MountedOn(item, "gen6", s)

NextWarm ==
  \/ \E s \in SortOption : resets < MaxResets /\ SetSort(s)
  \/ FetchNextPage
  \/ \E i \in 1..Len(inflight) : LoadOk(i)
  \/ \E i \in 1..Len(inflight) : quotas < MaxQuota /\ LoadOkQuota(i)
  \/ \E i \in 1..Len(inflight) : fails < MaxFails /\ LoadFail(i)

SpecWarm == InitWarm /\ [][NextWarm]_vars

(***************************************************************************)
(* The debounced search text: typing, passing time, the timeout.           *)
(***************************************************************************)
NextDebounce ==
  \/ \E v \in Queries : typed < MaxTyped /\ HandleSearchChange(v)
  \/ \E dt \in TimeSteps : Advance(dt)
  \/ TimerFires

SpecDebounce == Init /\ [][NextDebounce]_vars

\* time passes, and a timeout that is due fires
SpecDebounceFair ==
  /\ Init /\ [][NextDebounce]_vars
  /\ WF_vars(\E dt \in TimeSteps : Advance(dt))
  /\ WF_vars(TimerFires)

(***************************************************************************)
(* App: the mode switch between the pager and the global search, and the   *)
(* infinite-scroll sentinel.                                               *)
(***************************************************************************)
\* isSearching: searchedPokemon is always an array, never null
IsSearching == Len(Trim(search)) > 0

\* the search parameter App gives to usePokemons
PagerSearchProp == IF IsSearching THEN <<>> ELSE rawSearch

IdsOf(recs) == [i \in 1..Len(recs) |-> recs[i].id]

\* pokemonsToRender, as ids (the pager's list before its filter and sort)
PokemonsToRender == IF IsSearching THEN IdsOf(results) ELSE pokemons

(***************************************************************************)
(* usePokemons: filteredPokemons, the list the hook returns.  The records  *)
(* of the pager are ids; their names and types are those of the catalogue. *)
(***************************************************************************)
Alphabet == <<"a", "b", "c", "d", "e", "f", "g", "h", "i", "j", "k", "l", "m",
              "n", "o", "p", "q", "r", "s", "t", "u", "v", "w", "x", "y", "z">>

TypeNames == <<"fire", "water", "grass">>

\* GET pokemon/{id}: the name of the record, three letters, one name per id
CatalogName(id) ==
  LET k == (id * 37) % 1031
  IN <<Alphabet[(k % 26) + 1], Alphabet[((k \div 26) % 26) + 1], Alphabet[(k \div 676) + 1]>>

\* GET pokemon/{id}: the names of the one or two types of the record
CatalogTypes(id) ==
  {TypeNames[(id % 3) + 1]}
    \cup (IF id % 2 = 0 THEN {TypeNames[((id \div 3) % 3) + 1]} ELSE {})

\* the place of a letter in the alphabet
CharRank(ch) ==
  [a |-> 1, b |-> 2, c |-> 3, d |-> 4, e |-> 5, f |-> 6, g |-> 7, h |-> 8, i |-> 9,
   j |-> 10, k |-> 11, l |-> 12, m |-> 13, n |-> 14, o |-> 15, p |-> 16, q |-> 17,
   r |-> 18, s |-> 19, t |-> 20, u |-> 21, v |-> 22, w |-> 23, x |-> 24, y |-> 25,
   z |-> 26][ch]

\* a.localeCompare(b) for names of lower-case letters
RECURSIVE localeCompare(_, _)
localeCompare(a, b) ==
  IF a = <<>> /\ b = <<>> THEN 0
  ELSE IF a = <<>> THEN -1
  ELSE IF b = <<>> THEN 1
  ELSE IF CharRank(Head(a)) < CharRank(Head(b)) THEN -1
  ELSE IF CharRank(Head(a)) > CharRank(Head(b)) THEN 1
  ELSE localeCompare(Tail(a), Tail(b))

\* the comparator given to result.sort for each sort option
Comparator(srt, a, b) ==
  CASE srt = "ID_ASC" -> a - b
    [] srt = "ID_DESC" -> b - a
    [] srt = "AZ" -> localeCompare(CatalogName(a), CatalogName(b))
    [] srt = "ZA" -> localeCompare(CatalogName(b), CatalogName(a))

\* Array.prototype.sort, which is stable: the place of each element is one
\* more than the number of elements that go before it
PlaceOf(srt, seq) ==
  [i \in 1..Len(seq) |->
     1 + Cardinality({j \in 1..Len(seq) :
                        IF j < i THEN Comparator(srt, seq[j], seq[i]) <= 0
                                 ELSE Comparator(srt, seq[j], seq[i]) < 0})]

Placed(seq, place) ==
  [p \in 1..Len(seq) |-> seq[CHOOSE i \in 1..Len(seq) : place[i] = p]]

SortWith(srt, seq) ==
  CHOOSE sorted \in UNION {{Placed(s, place) : place \in {PlaceOf(srt, s)}} : s \in {seq}} : TRUE

\* the text filter: guarded by search.trim(), the term is search.toLowerCase()
MatchesText(id, term) ==
  Includes(ToLowerCase(CatalogName(id)), term) \/ Includes(ToString(id), term)

TextFilter(seq, srch) ==
  IF Trim(srch) # <<>>
  THEN SelectSeq(seq, LAMBDA id : MatchesText(id, ToLowerCase(srch)))
  ELSE seq

\* a type filter that keeps the records having any of the selected types
TypeFilter_Union(seq, tps) ==
  IF Len(tps) > 0
  THEN SelectSeq(seq, LAMBDA id : \E k \in 1..Len(tps) : tps[k] \in CatalogTypes(id))
  ELSE seq

\* the type filter: types.every(t => pokemon.types.some(pt => pt.type.name === t))
TypeFilter(seq, tps) ==
  IF Len(tps) > 0
  THEN SelectSeq(seq, LAMBDA id : \A k \in 1..Len(tps) : tps[k] \in CatalogTypes(id))
  ELSE seq

\* a hook that returns the filtered list unsorted
filteredPokemons_Unsorted(pkm, srch, tps, srt) ==
  TypeFilter(TextFilter(pkm, srch), tps)

filteredPokemons(pkm, srch, tps, srt) ==
  SortWith(srt, TypeFilter(TextFilter(pkm, srch), tps))

\* the pokemons the hook returns to App in the current render
FilteredPokemons == filteredPokemons(pokemons, PagerSearchProp, types, sort)

\* FilterMenu: toggleType
ToggleType(t) ==
  /\ types' = IF \E k \in 1..Len(types) : types[k] = t
               THEN SelectSeq(types, LAMBDA x : x # t)
               ELSE Append(types, t)
  /\ lastEvent' = "toggleType"
  /\ UNCHANGED <<pagerVars, searchVars, debounceVars, cacheVars>>

\* raw texts typed while the filter of the pager is watched
FilterQueries == {<<>>, <<"2">>, <<"A">>, <<" ">>}

\* the types toggled in the filter menu
FilterTypes == {"fire", "water"}

\* the filter menu and the search box over the pages of the sixth
\* generation, the shortest; the debounce delay does not elapse
InitFilter == \E s \in SortOption : Mounted("gen6", s)

NextFilter ==
  \/ \E t \in FilterTypes : ToggleType(t)
  \/ \E v \in FilterQueries : typed < MaxTyped /\ HandleSearchChange(v)
  \/ FetchNextPage
  \/ \E i \in 1..Len(inflight) : LoadOk(i)

SpecFilter == InitFilter /\ [][NextFilter]_vars

\* sessions of the sixth generation with changes of the sort option, long
\* enough to reach the end of the generation before and after a change
NextShort ==
  \/ \E s \in SortOption : resets < MaxResets /\ SetSort(s)
  \/ FetchNextPage
  \/ \E i \in 1..Len(inflight) : LoadOk(i)
  \/ \E i \in 1..Len(inflight) : fails < MaxFails /\ LoadFail(i)

SpecShort == InitFilter /\ [][NextShort]_vars

\* every request in flight is answered: the page arrives or the request fails
SpecShortFair ==
  /\ InitFilter /\ [][NextShort]_vars
  /\ WF_vars(\E i \in 1..Len(inflight) :
               LoadOk(i) \/ (fails < MaxFails /\ LoadFail(i)))

\* a sentinel rendered whatever the mode
SentinelRendered_IgnoresSearch == hasMore

\* the sentinel element is rendered, and observed by the observer that the
\* effect re-creates after every render (fetchNextPage is a new function in
\* every render)
SentinelRendered == ~IsSearching /\ hasMore

\* the IntersectionObserver callback with isIntersecting: with loading true
\* it returns without calling fetchNextPage
SentinelIntersects ==
  /\ SentinelRendered
  /\ ~loading
  /\ FetchNextPage

\* the texts typed in App: none, a term, a term in upper case with a blank
AppQueries == {<<>>, <<"2">>, <<"B", " ">>}

NextApp ==
  \/ \E v \in AppQueries : typed < MaxTyped /\ HandleSearchChange(v)
  \/ Advance(DEBOUNCE_MS)
  \/ TimerFires
  \/ IndexResolved(RemoteIndex(Len(Letters)))
  \/ IndexRejected
  \/ \E inv \in searches : \E failed \in FailSets(FailCandidates(inv.matches), MaxDetailFails - detailFails) :
        DetailsDone(inv, failed)
  \/ nexts < MaxAppNext /\ SentinelIntersects
  \/ \E i \in 1..Len(inflight) : LoadOk(i)

SpecApp == Init /\ [][NextApp]_vars

(***************************************************************************)
(* Properties.                                                             *)
(***************************************************************************)
Window(gen) ==
  {CatalogId(p) : p \in GENERATIONS[gen].offset .. (GENERATIONS[gen].offset + GENERATIONS[gen].limit - 1)}

Drained == ~hasMore /\ ~loading /\ inflight = <<>> /\ fails = 0

\* the ids a session of (gen, srt) fetches from loadedCount = lc to its last page
RECURSIVE DrainIds(_, _, _)
DrainIds(gen, srt, lc) ==
  IF PageLimit(gen, lc) <= 0 THEN {}
  ELSE Range(PageOf(RealOffset(gen, srt, lc), PageLimit(gen, lc)))
       \cup (IF lc + PageLimit(gen, lc) >= GENERATIONS[gen].limit THEN {}
             ELSE DrainIds(gen, srt, lc + PAGE_SIZE))

\* C1: a load started under another (generation, sort) never adds its records
\* to the accumulated list of the current session
C1_NoStaleRecords == staleIds = {}

\* C2: results is only ever written by the search effect run of the current
\* query, never by a superseded run
C2_ResultsByCurrentQuery == resultsBy = resultsWhen

\* C3: the full-index fetch is invoked at most once, and every caller of
\* getPokemonIndex is handed the same index
C3_SingleIndexFetch == indexFetches <= 1 /\ Cardinality(received) <= 1

C3_Witness == indexFetches = 1 /\ joined >= 1 /\ cached >= 1 /\ Cardinality(received) = 1

\* C4: an ascending session drained without failure holds exactly
\* generationLimit records, pairwise distinct, all from the generation's window
C4_AscendingDrain ==
  (Drained /\ sort # "ID_DESC") =>
    /\ Len(pokemons) = GENERATIONS[generation].limit
    /\ \A i, j \in 1..Len(pokemons) : i # j => pokemons[i] # pokemons[j]
    /\ Range(pokemons) \subseteq Window(generation)

C4_Witness ==
  /\ Drained /\ sort = "ID_ASC" /\ generation = "gen1"
  /\ Len(pokemons) = 151 /\ loadedCount = 140

\* C5: a descending session drained without failure holds the same set of
\* ids as the ascending drain of the same generation
C5_DescendingDrain ==
  (Drained /\ sort = "ID_DESC") =>
    Range(pokemons) = DrainIds(generation, "ID_ASC", 0)

C5_Witness ==
  /\ Drained /\ sort = "ID_DESC" /\ generation = "gen4"
  /\ Len(pokemons) = 107 /\ loadedCount = 100

\* C6: a failed page load ends with loading false and leaves hasMore and the
\* accumulated list as they were
C6_FailedLoadFrame ==
  [][lastEvent' = "loadFail" =>
       (~loading' /\ hasMore' = hasMore /\ pokemons' = pokemons)]_vars

C6_Witness == lastEvent = "loadFail" /\ ~loading /\ hasMore /\ Len(pokemons) >= PAGE_SIZE

\* C7: the load started by the next-page trigger that follows a failed load
\* fetches the window the failed load was fetching
C7_RetrySameWindow ==
  (lastEvent = "fetchNextPage" /\ failedLoad.generation # "none" /\ loading /\ inflight # <<>>) =>
    /\ inflight[Len(inflight)].realOffset = failedLoad.realOffset
    /\ inflight[Len(inflight)].limit = failedLoad.limit

\* C8: fetchNextPage changes nothing while loading or when hasMore is false,
\* and otherwise advances loadedCount by one page
C8_FetchNextPageGuard ==
  [][lastEvent' = "fetchNextPage" =>
       IF loading \/ ~hasMore
       THEN UNCHANGED <<loadedCount, pokemons, loading, hasMore, inflight>>
       ELSE loadedCount' = loadedCount + PAGE_SIZE]_vars

C8_Witness == lastEvent = "fetchNextPage" /\ loading /\ loadedCount = 0 /\ nexts = 0

\* C9: after a change of generation or sort the accumulated list is empty,
\* loadedCount is 0 and hasMore is true
C9_ResetApplied ==
  lastEvent \in {"setGeneration", "setSort"} =>
    (pokemons = <<>> /\ loadedCount = 0 /\ hasMore)

\* C10: loadedCount never decreases except at a change of generation or sort
C10_LoadedCountMonotone ==
  [][lastEvent' \notin {"setGeneration", "setSort"} => loadedCount' >= loadedCount]_vars

C10_Witness == resets >= 1 /\ fails = 1 /\ loadedCount >= 2 * PAGE_SIZE /\ ~loading

ClosesList(ld) == ld.loadedCount + ld.limit >= GENERATIONS[ld.generation].limit

C12_LoadedCountBounded ==
  loadedCount >= 0 /\ loadedCount <= GENERATIONS[generation].limit

\* the index entry matches the term by name or by the decimal text of its id
Hit(p, term) == Includes(p.name, term) \/ Includes(ToString(p.id), term)

\* the entries of the first k positions of the index that match the term
HitsOfPrefix(index, term, k) ==
  LET hit(p) == Hit(p, term)
  IN SelectSeq(SubSeq(index, 1, k), hit)

\* s is t with some elements left out, the order kept
RECURSIVE IsSubSeq(_, _)
IsSubSeq(s, t) ==
  IF s = <<>> THEN TRUE
  ELSE IF t = <<>> THEN FALSE
  ELSE IF s[1] = t[1] THEN IsSubSeq(Tail(s), Tail(t))
  ELSE IsSubSeq(s, Tail(t))

NamesOf(recs) == [i \in 1..Len(recs) |-> recs[i].name]

\* C14: for a non-empty query the entries resolved are exactly the first 20
\* (or all, if fewer) index entries, in index order, whose name contains the
\* term or whose id in decimal contains it; the results written are never
\* more than 20 and every one of them matches by name or by id
C14_FirstTwentyMatches ==
  [][/\ \A inv \in searches' \ searches : inv.phase = "details" =>
          /\ Len(inv.matches) <= 20
          /\ \E k \in 0..Len(indexCache'.items) :
               /\ inv.matches = HitsOfPrefix(indexCache'.items, inv.term, k)
               /\ k = Len(indexCache'.items) \/ Len(inv.matches) = 20
     /\ lastEvent' = "detailsDone" =>
          \E inv \in searches \ searches' :
            /\ Len(results') <= 20
            /\ \A i \in 1..Len(results') : Hit(results'[i], inv.term)
            /\ IsSubSeq(NamesOf(results'), NamesOf(inv.matches))]_vars

C14_Witness ==
  /\ lastEvent = "detailsDone" /\ search = <<"a">> /\ resultsBy = searchSeq
  /\ Len(results) = 20
  /\ Len(HitsOfPrefix(indexCache.items, <<"a">>, Len(indexCache.items))) > 20

\* C15: a detail lookup that fails leaves only its own entry out of the
\* results; the entries of the other lookups are all there and the search
\* ends as a completed one (loading false)
C15_FailedDetailOnlyDropsEntry ==
  [][lastEvent' = "detailsDone" =>
       \E inv \in searches \ searches' :
         /\ IsSubSeq(NamesOf(results'), NamesOf(inv.matches))
         /\ Len(inv.matches) - Len(results') = detailFails' - detailFails
         /\ ~searching']_vars

C15_Witness ==
  /\ lastEvent = "detailsDone" /\ detailFails = 1 /\ ~searching
  /\ Len(results) = SEARCH_LIMIT - 1

\* C19: once every started invocation of the search has completed, results
\* is the list computed for the most recent query: empty if that query is
\* empty, and otherwise made of records that match that query only
C19_LatestQueryWins ==
  searches = {} =>
    LET term == ToLowerCase(Trim(search))
    IN IF term = <<>> THEN results = <<>>
       ELSE \A i \in 1..Len(results) : Hit(results[i], term)

\* C17: the debounced value changes only when the timeout fires, not earlier
\* than the delay after the last change of the input; it then takes the
\* latest input value, never an earlier value of the burst, and this is its
\* first change since the input last changed
C17_BurstEmitsFinalOnce ==
  [][search' # search =>
       /\ lastEvent' = "timerFires"
       /\ sinceChange >= DEBOUNCE_MS
       /\ search' = rawSearch
       /\ emits' = 1]_vars

C17_Witness ==
  /\ lastEvent = "timerFires" /\ typed = 3 /\ searchSeq = 1
  /\ search = rawSearch /\ search # <<>> /\ emits = 1

\* C18: after the input stops changing the debounced value eventually
\* equals the last input value and stays so, and the debounced value changes
\* at most once between two changes of the input
C18_EventuallyConsistent ==
  /\ [](emits <= 1)
  /\ \A v \in Queries : (<>[](rawSearch = v)) => (<>[](search = v))

C18_Witness ==
  /\ typed >= 2 /\ ~timer.active /\ search = rawSearch /\ search # <<>>
  /\ emits = 1 /\ searchSeq >= 2

\* C20: when setItem fails at the end of a page load, the load is not a
\* failed one: the persisted cache is removed as a whole, and every record
\* of the requested window is in the accumulated list afterwards
C20_QuotaFailureStillMerges ==
  [][lastEvent' = "loadOkQuota" =>
       \E i \in 1..Len(inflight) :
         LET ld == inflight[i]
             window == {CatalogId(pos) : pos \in ld.realOffset .. (ld.realOffset + ld.limit - 1)}
         IN /\ inflight' = RemoveAt(inflight, i)
            /\ ~storage'.present
            /\ Range(pokemons') = Range(pokemons) \cup window
            /\ ~loading'
            /\ fails' = fails /\ failedLoad' = NoLoad]_vars

C20_Witness ==
  /\ lastEvent = "loadOkQuota" /\ ~storage.present /\ quotas = 1
  /\ Len(pokemons) = 2 * PAGE_SIZE /\ loadedCount = PAGE_SIZE /\ ~loading /\ fails = 0

\* C13: whenever the debounced search text is non-empty after trim, the
\* pager is given an empty search text, the list rendered is the list of the
\* global search, the sentinel is not rendered, and no step taken in that
\* mode advances loadedCount
C13_SearchModeSuspendsPager ==
  [][/\ Len(Trim(search')) > 0 =>
          /\ PagerSearchProp' = <<>>
          /\ PokemonsToRender' = IdsOf(results')
          /\ ~SentinelRendered'
     /\ Len(Trim(search)) > 0 =>
          /\ loadedCount' <= loadedCount
          /\ nexts' = nexts]_vars

C13_Witness ==
  /\ Len(Trim(search)) > 0 /\ rawSearch = search /\ results # <<>>
  /\ hasMore /\ ~loading /\ loadedCount >= PAGE_SIZE /\ nexts < MaxAppNext

\* C16: no step of the global search (start, index answer or failure,
\* completion) changes the accumulated list, loadedCount, loading or hasMore
\* of the pager, starts or ends a page load, or writes the persisted
\* response cache
C16_SearchLeavesPagerAlone ==
  [][lastEvent' \in {"timerFires", "indexResolved", "indexRejected", "detailsDone"} =>
       UNCHANGED <<pokemons, loadedCount, loading, hasMore, inflight, storage>>]_vars

C16_Witness ==
  /\ lastEvent = "detailsDone" /\ results # <<>> /\ detailFails = 1
  /\ loading /\ Len(pokemons) >= PAGE_SIZE /\ storage.present

\* the sum of the limits of the first k generations of a table
RECURSIVE SumLimits(_, _)
SumLimits(table, k) ==
  IF k = 0 THEN 0 ELSE SumLimits(table, k - 1) + table[GenOrder[k]].limit

\* C25: the nine generation windows are contiguous in table order, the first
\* starting at offset 0, their limits sum to 1025, and the table of the
\* pager equals the configuration table
C25_WindowsContiguous ==
  /\ CONFIG_GENERATIONS[GenOrder[1]].offset = 0
  /\ \A k \in 1..(Len(GenOrder) - 1) :
       CONFIG_GENERATIONS[GenOrder[k + 1]].offset
         = CONFIG_GENERATIONS[GenOrder[k]].offset + CONFIG_GENERATIONS[GenOrder[k]].limit
  /\ SumLimits(CONFIG_GENERATIONS, Len(GenOrder)) = 1025
  /\ Len(GenOrder) = 9 /\ Range(GenOrder) = Generation
  /\ GENERATIONS = CONFIG_GENERATIONS
  /\ Window(generation) = (CONFIG_GENERATIONS[generation].offset + 1)
                            ..(CONFIG_GENERATIONS[generation].offset
                                 + CONFIG_GENERATIONS[generation].limit)

C25_Witness ==
  /\ generation = "gen9" /\ Drained /\ 1025 \in Range(pokemons)
  /\ Len(pokemons) = CONFIG_GENERATIONS["gen9"].limit

\* C26: every page load in flight asks for pageSize = min(20, limit -
\* loadedCount) entries, pageSize > 0, at offset generationOffset +
\* loadedCount, or at generationOffset + generationLimit - loadedCount -
\* pageSize when the sort is ID_DESC, where generation, sort and loadedCount
\* are the values the load started with
C26_PageArithmetic ==
  \A i \in 1..Len(inflight) :
    LET ld == inflight[i]
        O == GENERATIONS[ld.generation].offset
        L == GENERATIONS[ld.generation].limit
        remaining == L - ld.loadedCount
        pageSize == IF remaining < 20 THEN remaining ELSE 20
    IN /\ pageSize > 0
       /\ ld.limit = pageSize
       /\ Len(PageOf(ld.realOffset, ld.limit)) = pageSize
       /\ ld.sort # "ID_DESC" => ld.realOffset = O + ld.loadedCount
       /\ ld.sort = "ID_DESC" => ld.realOffset = O + L - ld.loadedCount - pageSize
       /\ (resets = 0 /\ fails = 0) => ld.loadedCount = loadedCount

C26_Witness ==
  /\ generation = "gen4" /\ sort = "ID_DESC" /\ loadedCount = 100 /\ loading
  /\ Len(inflight) = 1 /\ inflight[1].limit = 7 /\ inflight[1].realOffset = 386

\* C27: every page fetch has 1 <= limit <= 20 and a window that lies inside
\* the window of the generation it is issued for, which is the current
\* generation when it is issued; limit - loadedCount - pageSize is not
\* negative
C27_FetchInsideGeneration ==
  /\ [](\A i \in 1..Len(inflight) :
         LET ld == inflight[i]
             O == GENERATIONS[ld.generation].offset
             L == GENERATIONS[ld.generation].limit
         IN /\ 1 <= ld.limit /\ ld.limit <= 20
            /\ O <= ld.realOffset
            /\ ld.realOffset + ld.limit <= O + L
            /\ L - ld.loadedCount - ld.limit >= 0)
  /\ [][\A i \in 1..Len(inflight') :
          (\A j \in 1..Len(inflight) : inflight[j] # inflight'[i]) =>
            inflight'[i].generation = generation']_vars

C27_Witness ==
  /\ generation = "gen6" /\ sort = "ID_DESC" /\ loadedCount = 60 /\ loading
  /\ Len(inflight) = 1 /\ inflight[1].limit = 12 /\ inflight[1].realOffset = 649

\* C28: a load cycle that starts with limit - loadedCount <= 0 sets hasMore
\* false, starts no call, ends with loading false and does not change the
\* accumulated list (which a change of generation or sort has just emptied)
C28_NothingRemaining ==
  [][/\ (lastEvent' = "fetchNextPage" /\ ~loading /\ hasMore
         /\ GENERATIONS[generation].limit - (loadedCount + PAGE_SIZE) <= 0) =>
          (~hasMore' /\ ~loading' /\ inflight' = inflight /\ pokemons' = pokemons)
     /\ (lastEvent' \in {"setGeneration", "setSort"} /\ ~loading /\ hasMore
         /\ GENERATIONS[generation'].limit - loadedCount <= 0) =>
          (~hasMore' /\ ~loading' /\ inflight' = inflight /\ pokemons' = <<>>)]_vars

C28_Witness ==
  /\ lastEvent = "fetchNextPage" /\ ~hasMore /\ ~loading /\ inflight = <<>>
  /\ loadedCount >= GENERATIONS[generation].limit /\ pokemons # <<>>

\* C29: loading is true exactly while a page load is in flight: it is true
\* from the step that starts the load and false after the step that ends it,
\* whether the load succeeded or failed
C29_LoadingTracksLoad ==
  /\ [](loading <=> inflight # <<>>)
  /\ [][lastEvent' \in {"loadOk", "loadOkQuota", "loadFail"} =>
          (Len(inflight') < Len(inflight) /\ (inflight' = <<>> => ~loading'))]_vars

C29_Witness ==
  /\ lastEvent = "loadFail" /\ ~loading /\ inflight = <<>> /\ resets = 1 /\ nexts >= 1

\* C30: at most one page fetch of the pager is in flight
C30_SingleFetchInFlight == Len(inflight) <= 1

C30_Witness ==
  /\ lastEvent \in {"setGeneration", "setSort"} /\ Len(inflight) = 1 /\ loading
  /\ (inflight[1].generation # generation \/ inflight[1].sort # sort)

\* C22: no entry of the stored index has a NaN id (an entry whose url does
\* not end with a number makes the normalisation fail instead)
C22_NoNaNIds ==
  indexCache.isNull \/ \A i \in 1..Len(indexCache.items) : indexCache.items[i].id # NaN

\* a is before b in the lexicographic order of the letters
LexLess(a, b) ==
  \E k \in 1..(Len(b)) :
    /\ \A m \in 1..(k - 1) : m <= Len(a) /\ a[m] = b[m]
    /\ (k > Len(a) \/ (k <= Len(a) /\ CharRank(a[k]) < CharRank(b[k])))

\* the text filter as a predicate on one record
PassesText(id) ==
  Trim(PagerSearchProp) = <<>>
    \/ Includes(CatalogName(id), ToLowerCase(PagerSearchProp))
    \/ Includes(ToString(id), ToLowerCase(PagerSearchProp))

\* C23: the list the pager returns holds a record exactly when the record is
\* accumulated, passes the text filter and has every selected type; with no
\* type selected the type filter removes nothing
C23_FilterIsIntersection ==
  /\ Range(FilteredPokemons) =
       {id \in Window(generation) :
          /\ id \in Range(pokemons)
          /\ PassesText(id)
          /\ \A t \in Range(types) : t \in CatalogTypes(id)}
  /\ types = <<>> =>
       Range(TypeFilter(pokemons, types)) = Range(pokemons)

C23_Witness ==
  /\ Len(types) = 2 /\ FilteredPokemons # <<>>
  /\ \E id \in Range(pokemons) :
       types[1] \in CatalogTypes(id) /\ types[2] \notin CatalogTypes(id)
  /\ \E id \in Range(pokemons) : CatalogTypes(id) \cap Range(types) = {}
  /\ Trim(PagerSearchProp) # <<>>
  /\ \E id \in Range(pokemons) :
       Range(types) \subseteq CatalogTypes(id) /\ id \notin Range(FilteredPokemons)

\* C24: the list the pager returns is a permutation of the filtered records
\* in the order of the sort option: increasing id, decreasing id, increasing
\* name, decreasing name
C24_SortedPermutation ==
  \A out \in {FilteredPokemons} :
    /\ Range(out) = {id \in Range(pokemons) :
                       PassesText(id) /\ \A t \in Range(types) : t \in CatalogTypes(id)}
    /\ \A i \in 1..Len(out) : \A j \in 1..Len(out) : out[i] = out[j] => i = j
    /\ \A i \in 1..(Len(out) - 1) :
         CASE sort = "ID_ASC" -> out[i] < out[i + 1]
           [] sort = "ID_DESC" -> out[i] > out[i + 1]
           [] sort = "AZ" -> LexLess(CatalogName(out[i]), CatalogName(out[i + 1]))
           [] sort = "ZA" -> LexLess(CatalogName(out[i + 1]), CatalogName(out[i]))

C24_Witness ==
  /\ sort = "ZA" /\ Len(FilteredPokemons) >= 3 /\ types # <<>>
  /\ \E i \in 1..(Len(FilteredPokemons) - 1) : FilteredPokemons[i] < FilteredPokemons[i + 1]
  /\ \E i \in 1..(Len(FilteredPokemons) - 1) : FilteredPokemons[i] > FilteredPokemons[i + 1]

\* C21: a page load over a stored item that does not parse succeeds and
\* replaces the item: once the load cycle of the mount or of a next page has
\* ended, the stored item parses
C21_CorruptCacheReplaced == ~loading => ~storage.corrupt

\* C31: a load requests the detail of exactly the entries of its page that
\* the cache it read at its start does not hold, and after every load that
\* getPokemons resolves the stored cache holds every record of the page
C31_CacheSkipsAndStores ==
  [][lastEvent' \in {"loadOk", "loadOkQuota", "loadFail"} =>
       \E i \in 1..Len(inflight) :
         /\ inflight' = RemoveAt(inflight, i)
         /\ detailLog' \subseteq
              Range(PageOf(inflight[i].realOffset, inflight[i].limit)) \ inflight[i].fullCache
         /\ lastEvent' # "loadFail" =>
              /\ detailLog' =
                   Range(PageOf(inflight[i].realOffset, inflight[i].limit)) \ inflight[i].fullCache
              /\ Range(PageOf(inflight[i].realOffset, inflight[i].limit))
                   \subseteq GetItem(storage')]_vars

\* C31 (amended): the same, the stored cache holding the page after every load
\* whose setItem succeeded, and nothing being stored after a load whose
\* setItem threw
C31_CacheSkipsAndStoresUnlessQuota ==
  [][lastEvent' \in {"loadOk", "loadOkQuota", "loadFail"} =>
       \E i \in 1..Len(inflight) :
         /\ inflight' = RemoveAt(inflight, i)
         /\ detailLog' \subseteq
              Range(PageOf(inflight[i].realOffset, inflight[i].limit)) \ inflight[i].fullCache
         /\ lastEvent' # "loadFail" =>
              detailLog' =
                Range(PageOf(inflight[i].realOffset, inflight[i].limit)) \ inflight[i].fullCache
         /\ lastEvent' = "loadOk" =>
              /\ storage'.present
              /\ Range(PageOf(inflight[i].realOffset, inflight[i].limit))
                   \subseteq GetItem(storage')
              /\ inflight[i].fullCache \subseteq GetItem(storage')
         /\ lastEvent' = "loadOkQuota" => ~storage'.present
         /\ lastEvent' = "loadFail" => storage' = storage]_vars

C31_Witness ==
  /\ lastEvent = "loadOk" /\ hasMore
  /\ detailLog # {} /\ Cardinality(detailLog) < PAGE_SIZE
  /\ detailLog \subseteq GetItem(storage)

\* C38: when calls of getPokemons overlap and none meets a storage failure,
\* no write of the cache discards a record an earlier call persisted
C38_NoLostCacheEntries ==
  [][GetItem(storage) \subseteq GetItem(storage')]_vars

\* C32: the accumulated list never holds an id twice and is in increasing
\* order of id; a merge keeps every record already accumulated and adds
\* exactly the ids of the page that were not there
C32_MergeKeepsSetSorted ==
  /\ [](\A i \in 1..(Len(pokemons) - 1) : pokemons[i] < pokemons[i + 1])
  /\ [][lastEvent' \in {"loadOk", "loadOkQuota"} =>
          \E i \in 1..Len(inflight) :
            /\ inflight' = RemoveAt(inflight, i)
            /\ Range(pokemons) \subseteq Range(pokemons')
            /\ Len(pokemons') = Len(pokemons)
                 + Cardinality({CatalogId(pos) :
                                  pos \in inflight[i].realOffset
                                          ..(inflight[i].realOffset + inflight[i].limit - 1)}
                               \ Range(pokemons))]_vars

C32_Witness ==
  /\ lastEvent = "loadOk" /\ hasMore /\ pokemons # <<>>
  /\ Len(pokemons) % PAGE_SIZE # 0

\* C33: the page load started by a change of generation or sort is computed
\* with loadedCount = 0: it asks for the first window of the new session
C33_FirstFetchFromZero ==
  lastEvent \in {"setGeneration", "setSort"} =>
    \A i \in 1..Len(inflight) :
      (inflight[i].generation = generation /\ inflight[i].sort = sort) =>
        /\ inflight[i].loadedCount = 0
        /\ inflight[i].realOffset =
             IF sort = "ID_DESC"
             THEN GENERATIONS[generation].offset + GENERATIONS[generation].limit
                    - inflight[i].limit
             ELSE GENERATIONS[generation].offset

\* C34: when the generation or the sort changes while a load is in flight, a
\* load of the first page of the new session (loadedCount = 0) is eventually
\* started, with no next-page trigger needed
C34_FirstPageEventuallyLoads ==
  (lastEvent \in {"setGeneration", "setSort"} /\ inflight # <<>>)
    ~> (\E i \in 1..Len(inflight) :
          /\ inflight[i].generation = generation
          /\ inflight[i].sort = sort
          /\ inflight[i].loadedCount = 0)

\* C35: whenever hasMore is false and no load is in flight, the accumulated
\* list holds the record of every position of the window of the generation
C35_ClosedMeansComplete ==
  (~hasMore /\ ~loading /\ inflight = <<>>) =>
    (Range(pokemons) = Window(generation) /\ Len(pokemons) = GENERATIONS[generation].limit)

\* C36: while the invocation of the current non-empty query has not
\* completed, the loading flag of the global search is true
C36_LoadingWhileCurrentPending ==
  (Len(Trim(search)) > 0 /\ \E inv \in searches : inv.id = searchSeq) => searching

\* C37: once the fetch of the index has failed, the rejected operation stays
\* stored and no other fetch is started; every search made afterwards ends
\* at once with no result and loading false
C37_RejectedIndexStays ==
  /\ [](indexPending = "rejected" =>
          /\ indexCache.isNull /\ indexFetches = 1
          /\ searches = {} /\ results = <<>> /\ ~searching)
  /\ [][indexPending = "rejected" =>
          (indexPending' = "rejected" /\ indexFetches' = indexFetches)]_vars

C37_Witness ==
  /\ indexPending = "rejected" /\ lastEvent = "setSearch" /\ Len(Trim(search)) > 0
  /\ joined >= 2 /\ searchSeq >= 3 /\ results = <<>> /\ ~searching

====
